---- MODULE Spec2Model ----
(***************************************************************************)
(* llvm-from-source.py: a run of the script (or a direct call of           *)
(* build_llvm) as a sequential state machine over the process's working    *)
(* directory, the directories of the file system, the external commands    *)
(* it invokes and the exception that is propagating.                       *)
(*                                                                         *)
(* A path is a sequence of components: <<"/", "tmp", "wd">> is /tmp/wd,    *)
(* <<"~", "build">> is ~/build, <<".">> is the relative path ".".  A       *)
(* command-line token is a sequence of strings too, so that                *)
(* "-DCMAKE_INSTALL_PREFIX=" followed by a path is one token.  The empty   *)
(* sequence stands for Python's None and for '', the two falsy values an   *)
(* optional argument can have.                                             *)
(***************************************************************************)
EXTENDS Integers, Sequences, FiniteSets, TLC

VARIABLES
    pc,             \* position of the single thread of control
    entry,          \* "main": the script is run; "build_llvm": the function is called
    args,           \* argparse namespace: sources, generator, build_dir, prefix
    env,            \* value of CMAKE_EXECUTABLE (<<>> when unset)
    cwd,            \* os.getcwd()
    dirs,           \* directories that exist
    wd,             \* name of __main__'s TemporaryDirectory
    main_prevdir,   \* prevdir of the cd(wd) frame of __main__
    source_dir,     \* build_llvm parameter
    generator,      \* build_llvm parameter
    build_dir_arg,  \* build_llvm parameter build_dir as passed by the caller
    install_prefix, \* build_llvm parameter
    tmp_dir,        \* build_directory's tmp_dir (<<>> is None)
    build_dir,      \* build_dir as rebound by "with build_directory() as build_dir"
    cd_prevdir,     \* prevdir of the cd(build_dir) frame of build_llvm
    exc,            \* the propagating exception followed by its __context__ chain
    status,         \* exit status of the process (-1 while it runs)
    calls,          \* subprocess.run invocations so far, each with the cwd it ran in
    logged,         \* log() calls so far
    created,        \* directories the program has created
    removed,        \* directories the program has removed
    entered         \* the directory cd(build_dir) entered (<<>> before it has)

vars == <<pc, entry, args, env, cwd, dirs, wd, main_prevdir, source_dir,
          generator, build_dir_arg, install_prefix, tmp_dir, build_dir,
          cd_prevdir, exc, status, calls, logged, created, removed, entered>>

-----------------------------------------------------------------------------
(* Bounds and the environment the run starts in *)

MaxReturnCode == 2
ReturnCodes == 0..MaxReturnCode

Home == <<"/", "home">>
OrigCwd == <<"/", "work">>
TmpRoot == <<"/", "tmp", "wd">>
TmpBuild == <<"/", "tmp", "bd">>

InitDirs == {<<"/">>, <<"/", "tmp">>, Home, OrigCwd,
             <<"/", "work", "build">>, <<"/", "home", "build">>,
             <<"/", "src">>, <<"/", "home", "src">>, <<"/", "work", "src">>}

SourceArgs == {<<>>, <<"/", "src">>, <<"~", "src">>, <<"src">>}
GeneratorArgs == {<<>>, <<"Ninja">>, <<"Unix Makefiles">>}
BuildDirArgs == {<<>>, <<"/", "work", "build">>, <<"~", "build">>,
                 <<"/", "missing">>, <<".">>, <<"llvm-project">>}
PrefixArgs == {<<>>, <<"/", "opt", "llvm">>}
EnvCmake == {<<>>, <<"/", "opt", "cmake">>}

\* what a process that exits with return code r has written to its stderr
StderrOf(r) == IF r = 0 THEN <<>> ELSE << <<"error output">> >>

\* what a subprocess.run can do: not start at all, or exit with a return code
Outcomes == {[launched |-> FALSE, returncode |-> 0, stderr |-> <<>>]}
            \cup {[launched |-> TRUE, returncode |-> r, stderr |-> StderrOf(r)] :
                      r \in ReturnCodes}

-----------------------------------------------------------------------------
(* Python and os.path helpers *)

Truthy(x) == x # <<>>

IsAbs(p) == p # <<>> /\ p[1] = "/"

IsPrefix(p, q) == Len(p) <= Len(q) /\ SubSeq(q, 1, Len(p)) = p

expanduserMut(p) == p

expanduser(p) == IF p # <<>> /\ p[1] = "~" THEN Home \o Tail(p) ELSE p

join(a, b) == IF IsAbs(b) THEN b ELSE a \o b

NotDot(c) == c # "."

\* the directory a path names for a process whose working directory is cur
Resolve(cur, p) == SelectSeq(IF IsAbs(p) THEN p ELSE cur \o p, NotDot)

chdirOkMut(ds, cur, p) == TRUE

\* os.chdir(p) succeeds: p names an existing directory
chdirOk(ds, cur, p) == p # <<>> /\ Resolve(cur, p) \in ds

rmtreeMut(ds, d) == ds \ {d}

rmtree(ds, d) == {x \in ds : ~IsPrefix(d, x)}

Subtree(ds, d) == {x \in ds : IsPrefix(d, x)}

which(program, e) == IF e # <<>> THEN e ELSE <<program>>

Raise(type, origin) == <<[type |-> type, origin |-> origin]>> \o exc

LogEntry(level, msg) == [level |-> level, msg |-> msg]

-----------------------------------------------------------------------------
(* cd: the values os.chdir leaves in the working directory *)

cdEnterMut(cur, newdir) == cur

\* the working directory after os.chdir(newdir) has succeeded
cdEnter(cur, newdir) == Resolve(cur, newdir)

cdRestoreMut(prevdir, cur) == cur

cdRestore(prevdir, cur) == prevdir

-----------------------------------------------------------------------------
(* The external commands *)

GitCloneCmdMut == << <<"git">>, <<"clone">>,
                     <<"https://github.com/llvm/llvm-project.git">> >>

GitCloneCmd == << <<"git">>, <<"clone">>, <<"--depth">>, <<"1">>,
                  <<"https://github.com/llvm/llvm-project.git">> >>

FixedFlags == << <<"-DCMAKE_BUILD_TYPE=Release">>,
                 <<"-DLLVM_TARGETS_TO_BUILD=X86">>,
                 <<"-DLLVM_ENABLE_PROJECTS='clang,libcxx,libcxxabi,libunwind,lldb,compiler-rt,lld,polly'">> >>

GeneratorTokensMut(g) == IF Truthy(g) THEN <<g>> ELSE <<>>

GeneratorTokens(g) == IF Truthy(g) THEN << <<"-G">>, g >> ELSE <<>>

PrefixTokens(p) == IF Truthy(p) THEN << <<"-DCMAKE_INSTALL_PREFIX=">> \o p >> ELSE <<>>

cmake_cmd_line(exe, src, g, p) ==
    <<exe>> \o FixedFlags \o GeneratorTokens(g) \o PrefixTokens(p)
            \o << join(src, <<"llvm">>) >>

build_cmd_line(exe) == << exe, <<"--build">>, <<".">> >>

install_cmd_line(exe) == << exe, <<"--build">>, <<".">>, <<"--target">>, <<"install">> >>

\* subprocess.run is called without stderr=PIPE: CompletedProcess.stderr is None
CompletedProcess(o) == [returncode |-> o.returncode, stderr |-> <<>>]

\* str() of what log() is given
Str(x) == IF x = <<>> THEN << <<"None">> >> ELSE x

NonZeroMut(rc) == FALSE

\* the test "returncode != 0" that guards the error log and check_returncode()
NonZero(rc) == rc # 0

check_returncodeMut(rc) == FALSE

\* CompletedProcess.check_returncode() raises CalledProcessError
check_returncode(rc) == rc # 0

Invocation(step, cmd, o) ==
    [step |-> step, cmd |-> cmd, cwd |-> cwd, launched |-> o.launched,
     returncode |-> o.returncode, stderr |-> o.stderr]

-----------------------------------------------------------------------------
(* __main__ *)

NoArgs == [sources |-> <<>>, generator |-> <<>>, build_dir |-> <<>>, prefix |-> <<>>]

\* the arguments __main__ gives build_llvm besides source_dir
MainCallArgs(a) ==
    [generator |-> a.generator, build_dir |-> a.build_dir, install_prefix |-> <<>>]

\* the position control reaches when build_llvm returns or raises
AfterBuild == IF entry = "main" THEN "main_cd_exit" ELSE "exit"

Init ==
    /\ entry \in {"main", "build_llvm"}
    /\ env \in EnvCmake
    /\ cwd = OrigCwd
    /\ dirs = InitDirs
    /\ wd = <<>>
    /\ main_prevdir = <<>>
    /\ tmp_dir = <<>>
    /\ build_dir = <<>>
    /\ cd_prevdir = <<>>
    /\ exc = <<>>
    /\ status = -1
    /\ calls = <<>>
    /\ logged = <<>>
    /\ created = {}
    /\ removed = {}
    /\ entered = <<>>
    /\ IF entry = "main"
       THEN /\ pc = "main"
            /\ args \in [sources : SourceArgs, generator : GeneratorArgs,
                         build_dir : BuildDirArgs, prefix : PrefixArgs]
            /\ source_dir = <<>>
            /\ generator = <<>>
            /\ build_dir_arg = <<>>
            /\ install_prefix = <<>>
       ELSE /\ pc = "bd_enter"
            /\ args = NoArgs
            /\ source_dir \in SourceArgs \ {<<>>}
            /\ generator \in GeneratorArgs
            /\ build_dir_arg \in BuildDirArgs
            /\ install_prefix \in PrefixArgs

\* tempfile.TemporaryDirectory() of the with statement
MainTempDir ==
    /\ pc = "main"
    /\ \E ok \in BOOLEAN :
        IF ok
        THEN /\ wd' = TmpRoot
             /\ dirs' = dirs \cup {TmpRoot}
             /\ created' = created \cup {TmpRoot}
             /\ pc' = "main_cd"
             /\ UNCHANGED exc
        ELSE /\ exc' = Raise("OSError", "mkdtemp")
             /\ pc' = "exit"
             /\ UNCHANGED <<wd, dirs, created>>
    /\ UNCHANGED <<entry, args, env, cwd, main_prevdir, source_dir, generator,
                   build_dir_arg, install_prefix, tmp_dir, build_dir, cd_prevdir,
                   status, calls, logged, removed, entered>>

\* cd(wd).__enter__ and the log call of the body
MainCd ==
    /\ pc = "main_cd"
    /\ main_prevdir' = cwd
    /\ IF chdirOk(dirs, cwd, expanduser(wd))
       THEN /\ cwd' = cdEnter(cwd, expanduser(wd))
            /\ logged' = Append(logged, LogEntry("INFO",
                            << <<"Use">>, wd, <<"as temporary directory">> >>))
            /\ pc' = "resolve"
            /\ UNCHANGED exc
       ELSE /\ cwd' = cdRestore(cwd, cwd)
            /\ exc' = Raise("FileNotFoundError", "chdir")
            /\ pc' = "main_tmp_exit"
            /\ UNCHANGED logged
    /\ UNCHANGED <<entry, args, env, dirs, wd, source_dir, generator,
                   build_dir_arg, install_prefix, tmp_dir, build_dir, cd_prevdir,
                   status, calls, created, removed, entered>>

\* the call of build_llvm with a caller-supplied source
ResolveSource ==
    /\ pc = "resolve"
    /\ Truthy(args.sources)
    /\ source_dir' = expanduser(args.sources)
    /\ generator' = MainCallArgs(args).generator
    /\ build_dir_arg' = MainCallArgs(args).build_dir
    /\ install_prefix' = MainCallArgs(args).install_prefix
    /\ pc' = "bd_enter"
    /\ UNCHANGED <<entry, args, env, cwd, dirs, wd, main_prevdir, tmp_dir,
                   build_dir, cd_prevdir, exc, status, calls, logged, created,
                   removed, entered>>

\* the call of build_llvm with the result of download_llvm()
download_llvm ==
    /\ pc = "resolve"
    /\ ~Truthy(args.sources)
    /\ \E o \in Outcomes :
        /\ calls' = Append(calls, Invocation("clone", GitCloneCmd, o))
        /\ IF ~o.launched
           THEN /\ exc' = Raise("FileNotFoundError", "clone")
                /\ pc' = "main_cd_exit"
                /\ UNCHANGED <<dirs, created, source_dir, generator,
                               build_dir_arg, install_prefix>>
           ELSE IF check_returncode(CompletedProcess(o).returncode)
           THEN /\ exc' = Raise("CalledProcessError", "clone")
                /\ pc' = "main_cd_exit"
                /\ UNCHANGED <<dirs, created, source_dir, generator,
                               build_dir_arg, install_prefix>>
           ELSE /\ dirs' = dirs \cup {Resolve(cwd, <<"llvm-project">>)}
                /\ created' = created \cup {Resolve(cwd, <<"llvm-project">>)}
                /\ source_dir' = join(cwd, <<"llvm-project">>)
                /\ generator' = MainCallArgs(args).generator
                /\ build_dir_arg' = MainCallArgs(args).build_dir
                /\ install_prefix' = MainCallArgs(args).install_prefix
                /\ pc' = "bd_enter"
                /\ UNCHANGED exc
    /\ UNCHANGED <<entry, args, env, cwd, wd, main_prevdir, tmp_dir, build_dir,
                   cd_prevdir, status, logged, removed, entered>>

\* cd(wd).__exit__
MainCdExit ==
    /\ pc = "main_cd_exit"
    /\ cwd' = cdRestore(main_prevdir, cwd)
    /\ pc' = "main_tmp_exit"
    /\ UNCHANGED <<entry, args, env, dirs, wd, main_prevdir, source_dir,
                   generator, build_dir_arg, install_prefix, tmp_dir, build_dir,
                   cd_prevdir, exc, status, calls, logged, created, removed,
                   entered>>

\* TemporaryDirectory.__exit__: cleanup() removes the tree or raises
MainTempDirExit ==
    /\ pc = "main_tmp_exit"
    /\ \E ok \in BOOLEAN :
        IF ok
        THEN /\ dirs' = rmtree(dirs, wd)
             /\ removed' = removed \cup Subtree(dirs, wd)
             /\ UNCHANGED exc
        ELSE /\ exc' = Raise("OSError", "cleanup")
             /\ UNCHANGED <<dirs, removed>>
    /\ pc' = "exit"
    /\ UNCHANGED <<entry, args, env, cwd, wd, main_prevdir, source_dir,
                   generator, build_dir_arg, install_prefix, tmp_dir, build_dir,
                   cd_prevdir, status, calls, logged, created, entered>>

\* the interpreter ends: an uncaught exception gives exit status 1
Exit ==
    /\ pc = "exit"
    /\ status' = IF exc = <<>> THEN 0 ELSE 1
    /\ pc' = "done"
    /\ UNCHANGED <<entry, args, env, cwd, dirs, wd, main_prevdir, source_dir,
                   generator, build_dir_arg, install_prefix, tmp_dir, build_dir,
                   cd_prevdir, exc, calls, logged, created, removed, entered>>

-----------------------------------------------------------------------------
(* build_llvm *)

\* build_directory().__enter__ when no build directory was given
BuildDirectoryTmp ==
    /\ pc = "bd_enter"
    /\ ~Truthy(build_dir_arg)
    /\ \E ok \in BOOLEAN :
        IF ok
        THEN /\ tmp_dir' = TmpBuild
             /\ build_dir' = TmpBuild
             /\ dirs' = dirs \cup {TmpBuild}
             /\ created' = created \cup {TmpBuild}
             /\ pc' = "cd_enter"
             /\ UNCHANGED exc
        ELSE /\ exc' = Raise("OSError", "mkdtemp")
             /\ pc' = AfterBuild
             /\ UNCHANGED <<tmp_dir, build_dir, dirs, created>>
    /\ UNCHANGED <<entry, args, env, cwd, wd, main_prevdir, source_dir,
                   generator, build_dir_arg, install_prefix, cd_prevdir, status,
                   calls, logged, removed, entered>>

\* build_directory().__enter__ when the caller gave a build directory
BuildDirectoryGiven ==
    /\ pc = "bd_enter"
    /\ Truthy(build_dir_arg)
    /\ build_dir' = expanduser(build_dir_arg)
    /\ pc' = "cd_enter"
    /\ UNCHANGED <<entry, args, env, cwd, dirs, wd, main_prevdir, source_dir,
                   generator, build_dir_arg, install_prefix, tmp_dir, cd_prevdir,
                   exc, status, calls, logged, created, removed, entered>>

\* cd(build_dir).__enter__
BuildCd ==
    /\ pc = "cd_enter"
    /\ cd_prevdir' = cwd
    /\ IF chdirOk(dirs, cwd, expanduser(build_dir))
       THEN /\ cwd' = cdEnter(cwd, expanduser(build_dir))
            /\ entered' = cdEnter(cwd, expanduser(build_dir))
            /\ pc' = "configure"
            /\ UNCHANGED exc
       ELSE /\ cwd' = cdRestore(cwd, cwd)
            /\ exc' = Raise("FileNotFoundError", "chdir")
            /\ pc' = "bd_exit"
            /\ UNCHANGED entered
    /\ UNCHANGED <<entry, args, env, dirs, wd, main_prevdir, source_dir,
                   generator, build_dir_arg, install_prefix, tmp_dir, build_dir,
                   status, calls, logged, created, removed>>

\* one subprocess.run with the check of its return code
Step(step, cmd, info, next) ==
    /\ pc = step
    /\ \E o \in Outcomes :
        /\ calls' = Append(calls, Invocation(step, cmd, o))
        /\ IF ~o.launched
           THEN /\ exc' = Raise("FileNotFoundError", step)
                /\ logged' = logged \o info
                /\ pc' = "cd_exit"
           ELSE /\ logged' = logged \o info \o
                       (IF NonZero(CompletedProcess(o).returncode)
                        THEN <<LogEntry("ERROR", Str(CompletedProcess(o).stderr))>>
                        ELSE <<>>)
                /\ IF /\ NonZero(CompletedProcess(o).returncode)
                      /\ check_returncode(CompletedProcess(o).returncode)
                   THEN /\ exc' = Raise("CalledProcessError", step)
                        /\ pc' = "cd_exit"
                   ELSE /\ pc' = next
                        /\ UNCHANGED exc
    /\ UNCHANGED <<entry, args, env, cwd, dirs, wd, main_prevdir, source_dir,
                   generator, build_dir_arg, install_prefix, tmp_dir, build_dir,
                   cd_prevdir, status, created, removed, entered>>

ConfigureMut ==
    LET cmd == cmake_cmd_line(which("cmake", env), source_dir, generator,
                              install_prefix)
    IN  Step("configure", cmd, <<LogEntry("INFO", cmd)>>, "install")

Configure ==
    LET cmd == cmake_cmd_line(which("cmake", env), source_dir, generator,
                              install_prefix)
    IN  Step("configure", cmd, <<LogEntry("INFO", cmd)>>, "build")

Build ==
    LET cmd == build_cmd_line(which("cmake", env))
    IN  Step("build", cmd, <<LogEntry("INFO", cmd)>>, "install")

Install ==
    Step("install", install_cmd_line(which("cmake", env)), <<>>, "cd_exit")

\* cd(build_dir).__exit__
BuildCdExit ==
    /\ pc = "cd_exit"
    /\ cwd' = cdRestore(cd_prevdir, cwd)
    /\ pc' = "bd_exit"
    /\ UNCHANGED <<entry, args, env, dirs, wd, main_prevdir, source_dir,
                   generator, build_dir_arg, install_prefix, tmp_dir, build_dir,
                   cd_prevdir, exc, status, calls, logged, created, removed,
                   entered>>

\* the finally clause of build_directory with a temporary directory
BuildDirectoryExitTmp ==
    /\ pc = "bd_exit"
    /\ Truthy(tmp_dir)
    /\ \E ok \in BOOLEAN :
        IF ok
        THEN /\ dirs' = rmtree(dirs, tmp_dir)
             /\ removed' = removed \cup Subtree(dirs, tmp_dir)
             /\ UNCHANGED exc
        ELSE /\ exc' = Raise("OSError", "rmtree")
             /\ UNCHANGED <<dirs, removed>>
    /\ pc' = AfterBuild
    /\ UNCHANGED <<entry, args, env, cwd, wd, main_prevdir, source_dir,
                   generator, build_dir_arg, install_prefix, tmp_dir, build_dir,
                   cd_prevdir, status, calls, logged, created, entered>>

\* the finally clause of build_directory with the caller's directory
BuildDirectoryExitGiven ==
    /\ pc = "bd_exit"
    /\ ~Truthy(tmp_dir)
    /\ pc' = AfterBuild
    /\ UNCHANGED <<entry, args, env, cwd, dirs, wd, main_prevdir, source_dir,
                   generator, build_dir_arg, install_prefix, tmp_dir, build_dir,
                   cd_prevdir, exc, status, calls, logged, created, removed,
                   entered>>

Next ==
    \/ MainTempDir
    \/ MainCd
    \/ ResolveSource
    \/ download_llvm
    \/ BuildDirectoryTmp
    \/ BuildDirectoryGiven
    \/ BuildCd
    \/ Configure
    \/ Build
    \/ Install
    \/ BuildCdExit
    \/ BuildDirectoryExitTmp
    \/ BuildDirectoryExitGiven
    \/ MainCdExit
    \/ MainTempDirExit
    \/ Exit

Spec == Init /\ [][Next]_vars

TypeOK ==
    /\ pc \in {"main", "main_cd", "resolve", "bd_enter", "cd_enter", "configure",
               "build", "install", "cd_exit", "bd_exit", "main_cd_exit",
               "main_tmp_exit", "exit", "done"}
    /\ status \in {-1, 0, 1}
    /\ cwd \in dirs

-----------------------------------------------------------------------------
(* Vocabulary of the properties *)

BuildSteps == {"configure", "build", "install"}

CallsOf(step) == {i \in 1..Len(calls) : calls[i].step = step}

Invoked(step) == CallsOf(step) # {}

CallFailed(c) == ~c.launched \/ c.returncode # 0

ExitedNonZero(c) == c.launched /\ c.returncode # 0

Origins == {exc[i].origin : i \in 1..Len(exc)}

\* the run met no failure other than those of the clone, of entering the
\* build directory and of the three steps
OnlyListedFailures ==
    Origins \subseteq {"clone", "chdir", "configure", "build", "install"}

Last(q) == q[Len(q)]

HasToken(cmd, t) == \E k \in 1..Len(cmd) : cmd[k] = t

PrefixTokensIn(cmd) ==
    {k \in 1..Len(cmd) : cmd[k][1] = "-DCMAKE_INSTALL_PREFIX="}

GeneratorFlagsIn(cmd) == {k \in 1..Len(cmd) : cmd[k] = <<"-G">>}

-----------------------------------------------------------------------------
(* C1 *)

\* C1: once the run has finished, whatever its outcome, the working
\* directory is the one the run started in.
C1_WorkingDirectoryRestored ==
    pc = "done" => cwd = OrigCwd

C1_Witness ==
    /\ pc = "done"
    /\ entry = "main"
    /\ entered = TmpBuild
    /\ \E i \in CallsOf("build") : ExitedNonZero(calls[i])
    /\ Origins = {"build"}
    /\ cwd = OrigCwd

-----------------------------------------------------------------------------
(* C2 *)

\* C2: after a run that entered its build directory and met only step
\* failures, a build directory given by the caller still exists and was
\* never removed by the program, and a temporary build directory no longer
\* exists.
C2_BuildDirectoryLifetime ==
    (pc = "done" /\ entered # <<>> /\ OnlyListedFailures) =>
        IF Truthy(build_dir_arg)
        THEN entered \in dirs /\ entered \notin removed
        ELSE entered \notin dirs

-----------------------------------------------------------------------------
(* C3 *)

\* C3: a step that exits non-zero is the last command of the run, so a
\* failed configure is followed by neither build nor install, and the
\* process then ends with a non-zero status.
C3_FailedStepAborts ==
    \A i \in 1..Len(calls) :
        (calls[i].step \in BuildSteps /\ ExitedNonZero(calls[i])) =>
            /\ i = Len(calls)
            /\ pc \notin {"build", "install"}
            /\ pc = "done" => status # 0

C3_Witness ==
    /\ pc = "done"
    /\ \E i \in CallsOf("configure") : ExitedNonZero(calls[i])
    /\ ~Invoked("build")
    /\ ~Invoked("install")
    /\ status = 1

-----------------------------------------------------------------------------
(* C4 *)

\* C4: the configure command of a run of the script carries
\* -DCMAKE_INSTALL_PREFIX=<path> exactly when --prefix <path> was given.
C4_PrefixReachesConfigure ==
    entry = "main" =>
        \A i \in CallsOf("configure") :
            IF Truthy(args.prefix)
            THEN HasToken(calls[i].cmd, <<"-DCMAKE_INSTALL_PREFIX=">> \o args.prefix)
            ELSE PrefixTokensIn(calls[i].cmd) = {}

-----------------------------------------------------------------------------
(* C5 *)

\* C5: once a run of the script has ended, on success and after a failed
\* clone, a failed entry into the build directory or a failed step alike,
\* the temporary root it created, and everything below it, no longer
\* exists (the one exception being that the removal itself raised).
C5_RootRemoved ==
    (pc = "done" /\ wd # <<>> /\ "cleanup" \notin Origins) =>
        /\ Subtree(dirs, wd) = {}
        /\ wd \in removed

C5_Witness ==
    /\ pc = "done"
    /\ wd = TmpRoot
    /\ \E i \in CallsOf("install") : ExitedNonZero(calls[i])
    /\ Origins = {"install"}
    /\ TmpRoot \notin dirs

-----------------------------------------------------------------------------
(* C6 *)

\* C6: with --source given, no clone is ever invoked and the source
\* directory that reaches the build is the given path, a leading ~
\* replaced by the home directory and nothing else changed.
C6_SuppliedSourceUsed ==
    (entry = "main" /\ Truthy(args.sources)) =>
        /\ ~Invoked("clone")
        /\ pc \notin {"main", "main_cd", "resolve"} /\ main_prevdir # <<>> =>
            source_dir = IF args.sources[1] = "~"
                         THEN Home \o Tail(args.sources)
                         ELSE args.sources
        /\ \A i \in CallsOf("configure") :
            Last(calls[i].cmd) =
                (IF args.sources[1] = "~"
                 THEN Home \o Tail(args.sources)
                 ELSE args.sources) \o <<"llvm">>

C6_Witness ==
    /\ entry = "main"
    /\ args.sources = <<"~", "src">>
    /\ Invoked("configure")
    /\ source_dir = <<"/", "home", "src">>

-----------------------------------------------------------------------------
(* C7 *)

\* C7: without --source, once the source has been resolved exactly one
\* clone has been invoked, it is "git clone --depth 1 <fixed URL>", and
\* the source directory given to the build is llvm-project inside the
\* directory the clone ran in.
C7_CloneOnce ==
    (entry = "main" /\ ~Truthy(args.sources)) =>
        /\ Cardinality(CallsOf("clone")) <= 1
        /\ (pc \notin {"main", "main_cd", "resolve"} /\ main_prevdir # <<>>) =>
                Cardinality(CallsOf("clone")) = 1
        /\ \A i \in CallsOf("clone") :
            /\ \E k \in 1..(Len(calls[i].cmd) - 1) :
                   calls[i].cmd[k] = <<"--depth">> /\ calls[i].cmd[k + 1] = <<"1">>
            /\ calls[i].cmd[1] = <<"git">>
            /\ calls[i].cmd[2] = <<"clone">>
            /\ Last(calls[i].cmd) = <<"https://github.com/llvm/llvm-project.git">>
            /\ source_dir # <<>> =>
                /\ source_dir = calls[i].cwd \o <<"llvm-project">>
                /\ Last(source_dir) = "llvm-project"
            /\ \A j \in CallsOf("configure") :
                   Last(calls[j].cmd) = calls[i].cwd \o <<"llvm-project", "llvm">>

C7_Witness ==
    /\ entry = "main"
    /\ args.sources = <<>>
    /\ Cardinality(CallsOf("clone")) = 1
    /\ Invoked("configure")
    /\ source_dir = <<"/", "tmp", "wd", "llvm-project">>

-----------------------------------------------------------------------------
(* C8 *)

\* C8: a clone that exits non-zero or cannot be launched is the only
\* command of the run: no build directory is created, control is leaving
\* the program, and the process ends with a non-zero status.
C8_CloneFailureAborts ==
    \A i \in CallsOf("clone") :
        CallFailed(calls[i]) =>
            /\ Len(calls) = 1
            /\ created \subseteq {wd}
            /\ tmp_dir = <<>>
            /\ entered = <<>>
            /\ pc \in {"main_cd_exit", "main_tmp_exit", "exit", "done"}
            /\ pc = "done" => status # 0

C8_Witness ==
    /\ pc = "done"
    /\ \E i \in CallsOf("clone") : ExitedNonZero(calls[i])
    /\ Len(calls) = 1
    /\ status = 1

-----------------------------------------------------------------------------
(* C9 *)

\* C9: the configure command of build_llvm is the executable, the three
\* fixed flags, one "-G" followed by the generator when a generator is
\* given and no "-G" otherwise, one -DCMAKE_INSTALL_PREFIX=<prefix> when
\* a prefix is given and none otherwise, and <source>/llvm at the end.
C9_ConfigureCommandLine ==
    \A i \in CallsOf("configure") :
        LET cmd == calls[i].cmd IN
        /\ HasToken(cmd, <<"-DCMAKE_BUILD_TYPE=Release">>)
        /\ HasToken(cmd, <<"-DLLVM_TARGETS_TO_BUILD=X86">>)
        /\ HasToken(cmd, <<"-DLLVM_ENABLE_PROJECTS='clang,libcxx,libcxxabi,libunwind,lldb,compiler-rt,lld,polly'">>)
        /\ Last(cmd) = source_dir \o <<"llvm">>
        /\ IF Truthy(generator)
           THEN /\ Cardinality(GeneratorFlagsIn(cmd)) = 1
                /\ \A k \in GeneratorFlagsIn(cmd) :
                       k < Len(cmd) /\ cmd[k + 1] = generator
                /\ Cardinality({k \in 1..Len(cmd) : cmd[k] = generator}) = 1
           ELSE GeneratorFlagsIn(cmd) = {}
        /\ IF Truthy(install_prefix)
           THEN /\ Cardinality(PrefixTokensIn(cmd)) = 1
                /\ \A k \in PrefixTokensIn(cmd) :
                       cmd[k] = <<"-DCMAKE_INSTALL_PREFIX=">> \o install_prefix
           ELSE PrefixTokensIn(cmd) = {}
        /\ Len(cmd) = 5 + (IF Truthy(generator) THEN 2 ELSE 0)
                        + (IF Truthy(install_prefix) THEN 1 ELSE 0)

C9_Witness ==
    /\ entry = "build_llvm"
    /\ generator = <<"Ninja">>
    /\ install_prefix = <<"/", "opt", "llvm">>
    /\ \E i \in CallsOf("configure") :
           /\ HasToken(calls[i].cmd, <<"-G">>)
           /\ HasToken(calls[i].cmd, <<"-DCMAKE_INSTALL_PREFIX=", "/", "opt", "llvm">>)

-----------------------------------------------------------------------------
(* C10 *)

\* C10: when a step has exited non-zero and the removal of a temporary
\* directory then fails as well, the exception that leaves the run is the
\* step's CalledProcessError, and the removal failure has been logged.
C10_DeletionFailureDoesNotMask ==
    (/\ pc = "done"
     /\ \E i \in 1..Len(exc) :
            exc[i].type = "CalledProcessError" /\ exc[i].origin \in BuildSteps
     /\ Origins \cap {"rmtree", "cleanup"} # {}) =>
        /\ Head(exc).type = "CalledProcessError"
        /\ Head(exc).origin \in BuildSteps
        /\ \E k \in 1..Len(logged) :
               /\ logged[k].level = "ERROR"
               /\ logged[k].msg # << <<"None">> >>

-----------------------------------------------------------------------------
(* C11 *)

\* C11: for every command (clone, configure, build, install) that has
\* exited non-zero, the run has logged an error whose message is what that
\* command wrote to its standard error.
C11_StderrLogged ==
    \A i \in 1..Len(calls) :
        ExitedNonZero(calls[i]) =>
            \E k \in 1..Len(logged) :
                /\ logged[k].level = "ERROR"
                /\ logged[k].msg = calls[i].stderr

-----------------------------------------------------------------------------
(* C12 *)

\* the directory the caller's build_dir names for the process at the time
\* build_llvm enters it: itself when absolute, below the home directory
\* when it starts with ~, below the current directory of that time otherwise
GivenBuildDir ==
    IF build_dir_arg[1] = "/" THEN build_dir_arg
    ELSE IF build_dir_arg[1] = "~" THEN Home \o Tail(build_dir_arg)
    ELSE SelectSeq(cd_prevdir \o build_dir_arg, NotDot)

\* C12: each of configure, build and install is invoked with the build
\* directory as working directory: the directory the caller's build_dir
\* names when one was given, the temporary build directory created for
\* this run otherwise.
C12_StepsRunInBuildDirectory ==
    \A i \in 1..Len(calls) :
        calls[i].step \in BuildSteps =>
            IF Truthy(build_dir_arg)
            THEN /\ calls[i].cwd = GivenBuildDir
                 /\ tmp_dir = <<>>
            ELSE /\ calls[i].cwd = TmpBuild
                 /\ tmp_dir = TmpBuild
                 /\ TmpBuild \in created

C12_Witness ==
    /\ Invoked("configure")
    /\ Invoked("build")
    /\ Invoked("install")
    /\ build_dir_arg = <<"~", "build">>
    /\ \A i \in 1..Len(calls) :
           calls[i].step \in BuildSteps => calls[i].cwd = <<"/", "home", "build">>

-----------------------------------------------------------------------------
(* C13 *)

\* control is inside the body of "with build_directory() as build_dir, cd(build_dir)"
InBuildScope == pc \in {"configure", "build", "install", "cd_exit"}

\* build_directory holds a temporary directory it has not yet released
HoldsTmpDir ==
    Truthy(tmp_dir) /\ pc \in {"cd_enter", "configure", "build", "install",
                              "cd_exit", "bd_exit"}

\* the build directories in use: the one entered and the one held
ActiveBuildDirs ==
    (IF InBuildScope THEN {entered} ELSE {})
    \cup (IF HoldsTmpDir THEN {tmp_dir} ELSE {})

\* the working directory in which build_llvm was called
BuildCallerDir == IF entry = "main" THEN TmpRoot ELSE OrigCwd

\* C13: at most one build directory is in use at any time and the steps of
\* a run never see two different ones; once the cd(build_dir) scope has
\* been left, by completion or by an exception, the working directory is
\* the one build_llvm was called in, and once the cd(wd) scope has been
\* left it is the one the run started in.
C13_OneBuildDirectoryAndRestore ==
    /\ Cardinality(ActiveBuildDirs) <= 1
    /\ Cardinality({calls[i].cwd : i \in {j \in 1..Len(calls) :
                                             calls[j].step \in BuildSteps}}) <= 1
    /\ pc \in {"bd_exit", "main_cd_exit"} => cwd = BuildCallerDir
    /\ pc \in {"main_tmp_exit", "exit", "done"} => cwd = OrigCwd

C13_Witness ==
    /\ pc = "bd_exit"
    /\ entry = "main"
    /\ entered = TmpBuild
    /\ Origins = {"configure"}
    /\ cwd = TmpRoot

-----------------------------------------------------------------------------
(* C14 *)

StepOrder == <<"configure", "build", "install">>

IsStepCall(c) == c.step \in BuildSteps

StepCalls == SelectSeq(calls, IsStepCall)

\* C14: the steps invoked so far are the first steps of configure, build,
\* install, in that order and each once, and every step but the last one
\* invoked was launched and exited with code zero.
C14_StrictStepOrder ==
    /\ Len(StepCalls) <= Len(StepOrder)
    /\ \A k \in 1..Len(StepCalls) :
        /\ StepCalls[k].step = StepOrder[k]
        /\ k < Len(StepCalls) =>
               StepCalls[k].launched /\ StepCalls[k].returncode = 0

C14_Witness ==
    /\ Len(StepCalls) = 3
    /\ StepCalls[3].step = "install"
    /\ StepCalls[1].returncode = 0
    /\ StepCalls[2].returncode = 0

-----------------------------------------------------------------------------
(* C15 *)

\* C15: no step of the program removes the directory that is the working
\* directory, or a directory above it: whenever the temporary build
\* directory or the temporary root is removed, the working directory has
\* already been restored out of it.
C15_NeverRemovesWorkingDirectory ==
    [][\A d \in (dirs \ dirs') \cup (removed' \ removed) :
           ~IsPrefix(d, cwd) /\ ~IsPrefix(d, cwd')]_vars

C15_Witness ==
    /\ entered = TmpBuild
    /\ TmpBuild \in removed
    /\ TmpRoot \in removed
    /\ cwd = OrigCwd
    /\ pc = "done"

-----------------------------------------------------------------------------
(* C16 *)

\* build_llvm has tried to enter a build directory given by the caller that
\* neither existed before the run nor was created by it
CannotEnter ==
    /\ Truthy(build_dir_arg)
    /\ cd_prevdir # <<>>
    /\ GivenBuildDir \notin InitDirs \cup created

\* C16: when the given build directory cannot be entered, the run is on its
\* way out with the error of the failed chdir: no step has been or will be
\* invoked, the path still does not exist and nothing was removed there,
\* and the finished run has a non-zero status, its initial working
\* directory and (unless the removal itself raised) no temporary root.
C16_MissingBuildDirectory ==
    CannotEnter =>
        /\ pc \in {"bd_exit", "main_cd_exit", "main_tmp_exit", "exit", "done"}
        /\ "chdir" \in Origins
        /\ StepCalls = <<>>
        /\ entered = <<>>
        /\ GivenBuildDir \notin dirs
        /\ GivenBuildDir \notin removed
        /\ cwd \in {BuildCallerDir, OrigCwd}
        /\ pc = "done" =>
            /\ status # 0
            /\ cwd = OrigCwd
            /\ (entry = "main" /\ "cleanup" \notin Origins) =>
                   Subtree(dirs, wd) = {} /\ wd \in removed

C16_Witness ==
    /\ pc = "done"
    /\ entry = "main"
    /\ build_dir_arg = <<"/", "missing">>
    /\ Origins = {"chdir"}
    /\ calls = <<>>
    /\ TmpRoot \in removed
    /\ cwd = OrigCwd

-----------------------------------------------------------------------------
(* C17 *)

\* the directory the caller's --source names in the directory the script
\* was started in
SuppliedSourceDir ==
    IF args.sources[1] = "/" THEN args.sources
    ELSE IF args.sources[1] = "~" THEN Home \o Tail(args.sources)
    ELSE OrigCwd \o args.sources

\* C17: in a run without --source the clone is the first command, it runs
\* in the temporary root, and no build directory is created or entered
\* before it has succeeded; the cloned tree is a directory the run created
\* below the root and it does not exist after the run (unless the removal
\* of the root itself raised).  A source directory given by the caller,
\* like every directory that existed before the run, is never removed.
C17_CloneLivesInRoot ==
    /\ \A i \in CallsOf("clone") :
        /\ i = 1
        /\ entry = "main"
        /\ calls[i].cwd = wd
        /\ wd = TmpRoot
        /\ wd \in created
    /\ (entry = "main" /\ ~Truthy(args.sources)) =>
        /\ (Truthy(tmp_dir) \/ Truthy(build_dir) \/ Truthy(entered)
              \/ TmpBuild \in created \/ StepCalls # <<>>) =>
                /\ CallsOf("clone") = {1}
                /\ ~CallFailed(calls[1])
        /\ Truthy(source_dir) =>
            /\ source_dir = TmpRoot \o <<"llvm-project">>
            /\ source_dir \in created
            /\ (pc = "done" /\ "cleanup" \notin Origins) =>
                   source_dir \notin dirs /\ source_dir \in removed
    /\ (entry = "main" /\ Truthy(args.sources)) =>
        /\ SuppliedSourceDir \in dirs
        /\ SuppliedSourceDir \notin removed
    /\ removed \cap InitDirs = {}

C17_Witness ==
    /\ pc = "done"
    /\ entry = "main"
    /\ args.sources = <<>>
    /\ Origins = {}
    /\ Len(calls) = 4
    /\ calls[1].cwd = TmpRoot
    /\ source_dir = <<"/", "tmp", "wd", "llvm-project">>
    /\ source_dir \in removed

====
